---- MODULE Spec2Model ----
(***************************************************************************)
(* GeoJSON Dashboard: the pipeline of app.py (read, parallel validation,   *)
(* batch repair with buffer(0), duplicate detection, map, summary event)   *)
(* and the Kafka helper of kafka_integration.py.                           *)
(***************************************************************************)
EXTENDS Integers, Sequences, FiniteSets, TLC

(***************************************************************************)
(* Bounds of the model.                                                    *)
(***************************************************************************)
\* longest batch of freely mixed geometries
MaxN == 3
\* threads of the ThreadPoolExecutor (the library default is min(32, cpu + 4))
MaxWorkers == 2

\* rows shown by the .head(10) previews
HeadLimit == 10

(***************************************************************************)
(* Geometries.  A geometry is a structural value: its type and its ordered *)
(* coordinate parts, so that TLA+ equality is the exact (WKB) equality     *)
(* pandas uses on the geometry column.                                     *)
(***************************************************************************)
\* a feature whose "geometry" is null: it has no is_valid attribute
NullGeom == [type |-> "None", parts |-> <<>>]
Pt == [type |-> "Point", parts |-> << << <<0, 0>> >> >>]
\* a unit square, exterior ring clockwise (the orientation buffer() emits)
SquareCW == [type |-> "Polygon",
             parts |-> << << <<0, 0>>, <<0, 1>>, <<1, 1>>, <<1, 0>>, <<0, 0>> >> >>]
\* the same square, exterior ring counter-clockwise
SquareCCW == [type |-> "Polygon",
              parts |-> << << <<0, 0>>, <<1, 0>>, <<1, 1>>, <<0, 1>>, <<0, 0>> >> >>]
\* a bowtie whose ring touches itself at (1 1)
Bowtie == [type |-> "Polygon",
           parts |-> << << <<0, 0>>, <<0, 2>>, <<1, 1>>, <<2, 2>>, <<2, 0>>, <<1, 1>>, <<0, 0>> >> >>]
\* the two triangles buffer(0) makes of the bowtie
BowtieFixed == [type |-> "MultiPolygon",
                parts |-> << << <<0, 0>>, <<0, 2>>, <<1, 1>>, <<0, 0>> >>,
                             << <<1, 1>>, <<2, 2>>, <<2, 0>>, <<1, 1>> >> >>]
\* stands for any invalid geometry that buffer(0) does not make valid
Broken == [type |-> "Polygon",
           parts |-> << << <<0, 0>>, <<3, 3>>, <<0, 0>> >> >>]
BrokenBuf == [type |-> "Polygon",
              parts |-> << << <<0, 0>>, <<3, 3>>, <<3, 3>>, <<0, 0>> >> >>]
PolygonEmpty == [type |-> "Polygon", parts |-> <<>>]

\* the geometries a file can hold
Geoms == {Pt, SquareCW, SquareCCW, Bowtie, Broken, NullGeom}

\* geom.is_valid raises for a null geometry
RaisesNever(geom) == FALSE
Raises(geom) == geom = NullGeom

\* geom.is_valid
is_valid(geom) == geom \in {Pt, SquareCW, SquareCCW, BowtieFixed, PolygonEmpty}

\* explain_validity(geom), for a geometry that is not valid
explain_validity(geom) ==
    CASE geom = Bowtie -> "Ring Self-intersection[1 1]"
      [] geom = Broken -> "Self-intersection[3 3]"
      [] geom = BrokenBuf -> "Self-intersection[3 3]"
      [] OTHER -> "Valid Geometry"

\* geom.wkt
wkt(geom) ==
    CASE geom = Pt -> "POINT (0 0)"
      [] geom = SquareCW -> "POLYGON ((0 0, 0 1, 1 1, 1 0, 0 0))"
      [] geom = SquareCCW -> "POLYGON ((0 0, 1 0, 1 1, 0 1, 0 0))"
      [] geom = Bowtie -> "POLYGON ((0 0, 0 2, 1 1, 2 2, 2 0, 1 1, 0 0))"
      [] geom = BowtieFixed -> "MULTIPOLYGON (((0 0, 0 2, 1 1, 0 0)), ((1 1, 2 2, 2 0, 1 1)))"
      [] geom = Broken -> "POLYGON ((0 0, 3 3, 0 0))"
      [] geom = BrokenBuf -> "POLYGON ((0 0, 3 3, 3 3, 0 0))"
      [] OTHER -> "POLYGON EMPTY"

\* geom.buffer(0): a point has no area, a polygon is rebuilt clockwise
buffer0(geom) ==
    CASE geom = Pt -> PolygonEmpty
      [] geom = SquareCW -> SquareCW
      [] geom = SquareCCW -> SquareCW
      [] geom = Bowtie -> BowtieFixed
      [] geom = BowtieFixed -> BowtieFixed
      [] geom = Broken -> BrokenBuf
      [] geom = BrokenBuf -> BrokenBuf
      [] OTHER -> PolygonEmpty

None == "None"
Raised == [raised |-> TRUE]

\* parallel_validate(geom)
parallel_validate(geom) ==
    IF Raises(geom) THEN Raised
    ELSE [raised |-> FALSE,
          valid |-> is_valid(geom),
          issue |-> IF is_valid(geom) THEN None ELSE explain_validity(geom),
          wkt |-> wkt(geom)]

(***************************************************************************)
(* Data frame helpers (pandas / geopandas row and column operations).      *)
(***************************************************************************)
\* df.head(10)
head(rows) == SubSeq(rows, 1, IF Len(rows) < HeadLimit THEN Len(rows) ELSE HeadLimit)

\* df[col] = val, for one row
SetCol(row, col, val) == (col :> val) @@ row

\* del df[col], for one row
DropCol(row, col) == [c \in (DOMAIN row) \ {col} |-> row[c]]

\* df[[col]]: the index and one column
OnlyCol(row, col) == [c \in {"index", col} |-> row[c]]

\* gdf.set_geometry('geometry_fixed', inplace=True, drop=True): the column
\* geometry_fixed is deleted and its values become the geometry column
set_geometry(rows) ==
    [k \in 1..Len(rows) |->
        SetCol(DropCol(rows[k], "geometry_fixed"), "geometry", rows[k].geometry_fixed)]

(***************************************************************************)
(* State.                                                                  *)
(***************************************************************************)
VARIABLES
    file,        \* the uploaded file: whether it can be read, and its features' geometries
    producer,    \* the module-level Kafka producer: "unset", "KafkaProducer" or None
    pc,          \* position of the script
    gdf,         \* the GeoDataFrame: a sequence of rows, each a record of its columns
    futures,     \* the futures of executor.map, in submission order
    finished,    \* the indices of the futures in the order the workers completed them
    results,     \* list(executor.map(...))
    duplicates,  \* the boolean mask gdf.duplicated(...)
    shown,       \* the tables and the map handed to the display
    ui,          \* the st.warning / st.success / st.error messages, in order
    error,       \* the exception caught by the except clause, or None
    event,       \* the summary event
    sent,        \* the events delivered to the Kafka topic
    kafka_log,   \* the log lines of kafka_integration
    stages       \* the stages of the pipeline entered so far

vars == <<file, producer, pc, gdf, futures, finished, results, duplicates,
          shown, ui, error, event, sent, kafka_log, stages>>

\* the batches a file can hold: every short batch, and for each geometry a
\* batch of it that is one row longer than a preview table
Batches ==
    UNION {[1..n -> Geoms] : n \in 0..MaxN}
    \cup {[i \in 1..(HeadLimit + 1) |-> g] : g \in Geoms}

Files ==
    {[readable |-> TRUE, features |-> b] : b \in Batches}
    \cup {[readable |-> FALSE, features |-> <<>>]}

\* the event variable before the event is built
NoEvent == [filename |-> None, total_features |-> 0]

NoShown == [issues |-> <<>>, still_invalid |-> <<>>, duplicates |-> <<>>, map |-> <<>>]

Init ==
    /\ file \in Files
    /\ producer = "unset"
    /\ pc = "producer"
    /\ gdf = <<>>
    /\ futures = <<>>
    /\ finished = <<>>
    /\ results = <<>>
    /\ duplicates = <<>>
    /\ shown = NoShown
    /\ ui = <<>>
    /\ error = None
    /\ event = NoEvent
    /\ sent = <<>>
    /\ kafka_log = <<>>
    /\ stages = <<>>

(***************************************************************************)
(* kafka_integration.py                                                    *)
(***************************************************************************)
\* get_kafka_producer(): the producer, or None when the constructor raises
get_kafka_producer(connected) ==
    IF connected
    THEN [producer |-> "KafkaProducer", log |-> "Kafka producer initialized successfully."]
    ELSE [producer |-> None, log |-> "Error initializing Kafka producer"]

\* send_kafka_event without its try/except: a failing send leaves as an exception
send_kafka_event_unguarded(prod, ev, broker_ok) ==
    IF prod = None
    THEN [delivered |-> <<>>, log |-> "Kafka producer is not initialized.", raised |-> FALSE]
    ELSE IF broker_ok
         THEN [delivered |-> <<ev>>, log |-> "Kafka event sent", raised |-> FALSE]
         ELSE [delivered |-> <<>>, log |-> "Error sending Kafka event", raised |-> TRUE]

\* send_kafka_event(producer, topic, event), broker_ok telling whether send and
\* flush succeed: what is delivered, what is logged, whether an exception leaves
send_kafka_event(prod, ev, broker_ok) ==
    IF prod = None
    THEN [delivered |-> <<>>, log |-> "Kafka producer is not initialized.", raised |-> FALSE]
    ELSE IF broker_ok
         THEN [delivered |-> <<ev>>, log |-> "Kafka event sent", raised |-> FALSE]
         ELSE [delivered |-> <<>>, log |-> "Error sending Kafka event", raised |-> FALSE]

(***************************************************************************)
(* app.py                                                                  *)
(***************************************************************************)
\* the except clause of the script: one error message, nothing else runs
Except(kind) ==
    /\ error' = kind
    /\ ui' = Append(ui, "Error processing GeoJSON file")
    /\ pc' = "Aborted"

\* producer = get_kafka_producer()
GetKafkaProducer ==
    /\ pc = "producer"
    /\ \E connected \in BOOLEAN :
          /\ producer' = get_kafka_producer(connected).producer
          /\ kafka_log' = Append(kafka_log, get_kafka_producer(connected).log)
    /\ pc' = "read"
    /\ UNCHANGED <<file, gdf, futures, finished, results, duplicates, shown, ui,
                   error, event, sent, stages>>

\* gdf = gpd.read_file(file), and the raw data preview
ReadFile ==
    /\ pc = "read"
    /\ file.readable
    /\ gdf' = [i \in 1..Len(file.features) |-> [index |-> i, geometry |-> file.features[i]]]
    /\ ui' = Append(ui, "Data Preview")
    /\ stages' = Append(stages, "Ingested")
    /\ pc' = "submit"
    /\ UNCHANGED <<file, producer, futures, finished, results, duplicates, shown,
                   error, event, sent, kafka_log>>

\* gpd.read_file(file) raises
ReadFileError ==
    /\ pc = "read"
    /\ ~file.readable
    /\ Except("IngestionError")
    /\ UNCHANGED <<file, producer, gdf, futures, finished, results, duplicates, shown,
                   event, sent, kafka_log, stages>>

\* executor.map submits one future per geometry, in order
Submit ==
    /\ pc = "submit"
    /\ futures' = [i \in 1..Len(gdf) |-> [state |-> "PENDING"]]
    /\ pc' = "pool"
    /\ UNCHANGED <<file, producer, gdf, finished, results, duplicates, shown, ui,
                   error, event, sent, kafka_log, stages>>

Running == {i \in 1..Len(futures) : futures[i].state = "RUNNING"}
Pending == {i \in 1..Len(futures) : futures[i].state = "PENDING"}

\* ThreadPoolExecutor(): the threads of the pool; the long batches are
\* validated one geometry at a time
max_workers == IF Len(file.features) > MaxN THEN 1 ELSE MaxWorkers

\* an idle worker takes the oldest pending work item of the queue
WorkerStart ==
    /\ pc = "pool"
    /\ Cardinality(Running) < max_workers
    /\ Pending # {}
    /\ LET i == CHOOSE j \in Pending : \A k \in Pending : j <= k
       IN futures' = [futures EXCEPT ![i] = [state |-> "RUNNING"]]
    /\ UNCHANGED <<file, producer, pc, gdf, finished, results, duplicates, shown, ui,
                   error, event, sent, kafka_log, stages>>

\* a worker finishes parallel_validate on its geometry: any running one may be first
WorkerFinish ==
    /\ pc = "pool"
    /\ \E i \in Running :
          /\ futures' = [futures EXCEPT ![i] =
                            [state |-> "FINISHED",
                             result |-> parallel_validate(gdf[i].geometry)]]
          /\ finished' = Append(finished, i)
    /\ UNCHANGED <<file, producer, pc, gdf, results, duplicates, shown, ui,
                   error, event, sent, kafka_log, stages>>

\* the result iterator of executor.map: the futures' results in submission order
as_completed_results(fs, order) == [k \in 1..Len(order) |-> fs[order[k]].result]
executor_map_results(fs, order) == [i \in 1..Len(fs) |-> fs[i].result]

\* the iterator reaches future k: it and all before it are finished
Reached(k) == \A j \in 1..k : futures[j].state = "FINISHED"

\* results = list(executor.map(...)); gdf['valid'] = ...; gdf['issue'] = ...
CollectResults ==
    /\ pc = "pool"
    /\ Reached(Len(futures))
    /\ \A i \in 1..Len(futures) : ~futures[i].result.raised
    /\ LET res == executor_map_results(futures, finished)
       IN /\ results' = res
          /\ gdf' = [i \in 1..Len(gdf) |->
                        SetCol(SetCol(gdf[i], "valid", res[i].valid), "issue", res[i].issue)]
    /\ stages' = Append(stages, "Validated")
    /\ pc' = "repair"
    /\ UNCHANGED <<file, producer, futures, finished, duplicates, shown, ui,
                   error, event, sent, kafka_log>>

\* the iterator reaches a future whose call raised: the exception leaves
\* executor.map, the other futures are cancelled or ignored
CollectRaises ==
    /\ pc = "pool"
    /\ \E k \in 1..Len(futures) :
          /\ Reached(k)
          /\ futures[k].result.raised
          /\ \A j \in 1..(k - 1) : ~futures[j].result.raised
    /\ Except("GeometryProcessingError")
    /\ UNCHANGED <<file, producer, gdf, futures, finished, results, duplicates, shown,
                   event, sent, kafka_log, stages>>

\* invalid_geometries = gdf[~gdf['valid']]
invalid_geometries(rows) == SelectSeq(rows, LAMBDA r : ~r.valid)

\* gdf['geometry_fixed'] = gdf.geometry.buffer(0);
\* gdf['valid_fixed'] = gdf['geometry_fixed'].apply(lambda g: g.is_valid)
buffer_invalid_rows(rows) ==
    [k \in 1..Len(rows) |->
        LET fixed == IF rows[k].valid THEN rows[k].geometry ELSE buffer0(rows[k].geometry)
        IN SetCol(SetCol(rows[k], "geometry_fixed", fixed), "valid_fixed", is_valid(fixed))]
buffer_all_rows(rows) ==
    [k \in 1..Len(rows) |->
        LET fixed == buffer0(rows[k].geometry)
        IN SetCol(SetCol(rows[k], "geometry_fixed", fixed), "valid_fixed", is_valid(fixed))]

\* still_invalid = gdf[~gdf['valid_fixed']]
still_invalid(rows) == SelectSeq(rows, LAMBDA r : ~r.valid_fixed)

\* gdf = gdf[gdf['valid_fixed']]
keep_every_row(rows) == rows
valid_fixed_rows(rows) == SelectSeq(rows, LAMBDA r : r.valid_fixed)

\* the repair branch is entered: warning, issue table, buffer(0) on the whole frame
RepairAttempt ==
    /\ pc = "repair"
    /\ invalid_geometries(gdf) # <<>>
    /\ ui' = Append(ui, "Detected invalid geometries")
    /\ shown' = [shown EXCEPT
                    !.issues = head([k \in 1..Len(invalid_geometries(gdf)) |->
                                        OnlyCol(invalid_geometries(gdf)[k], "issue")])]
    /\ gdf' = buffer_all_rows(gdf)
    /\ stages' = Append(stages, "RepairAttempted")
    /\ pc' = "partition"
    /\ UNCHANGED <<file, producer, futures, finished, results, duplicates,
                   error, event, sent, kafka_log>>

\* no invalid geometry: the repair branch is not entered
RepairSkip ==
    /\ pc = "repair"
    /\ invalid_geometries(gdf) = <<>>
    /\ ui' = Append(ui, "All geometries are valid")
    /\ stages' = Append(stages, "RepairSkipped")
    /\ pc' = "dedupe"
    /\ UNCHANGED <<file, producer, gdf, futures, finished, results, duplicates, shown,
                   error, event, sent, kafka_log>>

\* the rows still invalid are shown with their geometry column and filtered
\* out; the fixed geometries become the geometry column
Partition ==
    /\ pc = "partition"
    /\ IF still_invalid(gdf) = <<>>
       THEN /\ ui' = Append(ui, "All geometries successfully fixed")
            /\ gdf' = set_geometry(gdf)
            /\ UNCHANGED shown
       ELSE /\ ui' = Append(ui, "geometries remain invalid after fix attempt")
            /\ shown' = [shown EXCEPT
                            !.still_invalid =
                                head([k \in 1..Len(still_invalid(gdf)) |->
                                         OnlyCol(still_invalid(gdf)[k], "geometry")])]
            /\ gdf' = set_geometry(valid_fixed_rows(gdf))
    /\ pc' = "dedupe"
    /\ UNCHANGED <<file, producer, futures, finished, results, duplicates,
                   error, event, sent, kafka_log, stages>>

\* gdf.duplicated(subset='geometry', keep=False)
duplicated_keep_first(rows) ==
    [k \in 1..Len(rows) |-> \E j \in 1..(k - 1) : rows[j].geometry = rows[k].geometry]
duplicated(rows) ==
    [k \in 1..Len(rows) |->
        \E j \in 1..Len(rows) : j # k /\ rows[j].geometry = rows[k].geometry]

\* duplicate_geometries = gdf[duplicates]
duplicate_geometries(rows, mask) ==
    LET flagged == {k \in 1..Len(rows) : mask[k]}
    IN SelectSeq(rows, LAMBDA r : \E k \in flagged : rows[k].index = r.index)

\* duplicate detection placed before the repair branch
DeduplicateBeforeRepair ==
    /\ pc = "repair"
    /\ duplicates' = duplicated(gdf)
    /\ ui' = Append(ui, "No duplicate geometries detected")
    /\ stages' = Append(stages, "Deduplicated")
    /\ pc' = "map"
    /\ UNCHANGED <<file, producer, gdf, futures, finished, results, shown,
                   error, event, sent, kafka_log>>

\* duplicate geometry detection
Deduplicate ==
    /\ pc = "dedupe"
    /\ duplicates' = duplicated(gdf)
    /\ LET dups == duplicate_geometries(gdf, duplicated(gdf))
       IN IF dups # <<>>
          THEN /\ ui' = Append(ui, "Detected duplicate geometries")
               /\ shown' = [shown EXCEPT
                               !.duplicates =
                                   head([k \in 1..Len(dups) |-> DropCol(dups[k], "geometry")])]
          ELSE /\ ui' = Append(ui, "No duplicate geometries detected")
               /\ UNCHANGED shown
    /\ stages' = Append(stages, "Deduplicated")
    /\ pc' = "map"
    /\ UNCHANGED <<file, producer, gdf, futures, finished, results,
                   error, event, sent, kafka_log>>

\* gdf.unary_union.centroid has no coordinates when every kept geometry is empty
NoCentroid(rows) == \A k \in 1..Len(rows) : rows[k].geometry.parts = <<>>

\* the map drawn without the test for an empty frame
MapVisualizationUnguarded ==
    /\ pc = "map"
    /\ shown' = [shown EXCEPT !.map = [k \in 1..Len(gdf) |-> gdf[k].geometry]]
    /\ ui' = Append(ui, "Geometries visualized successfully")
    /\ pc' = "publish"
    /\ UNCHANGED <<file, producer, gdf, futures, finished, results, duplicates,
                   error, event, sent, kafka_log, stages>>

\* the map is drawn when the frame is not empty, else "No valid geometries"
MapVisualization ==
    /\ pc = "map"
    /\ IF gdf # <<>>
       THEN /\ shown' = [shown EXCEPT !.map = [k \in 1..Len(gdf) |-> gdf[k].geometry]]
            /\ ui' = Append(ui, "Geometries visualized successfully")
       ELSE /\ ui' = Append(ui, "No valid geometries to visualize")
            /\ UNCHANGED shown
    /\ pc' = "publish"
    /\ UNCHANGED <<file, producer, gdf, futures, finished, results, duplicates,
                   error, event, sent, kafka_log, stages>>

\* centering the map on a centroid without coordinates may raise
MapRaises ==
    /\ pc = "map"
    /\ gdf # <<>>
    /\ NoCentroid(gdf)
    /\ Except("MapError")
    /\ UNCHANGED <<file, producer, gdf, futures, finished, results, duplicates, shown,
                   event, sent, kafka_log, stages>>

\* the summary event of the processed file
summary_event(rows) == [filename |-> "upload.geojson", total_features |-> Len(rows)]

\* the event is built and handed to send_kafka_event
Publish ==
    /\ pc = "publish"
    /\ event' = summary_event(gdf)
    /\ \E broker_ok \in BOOLEAN :
          LET out == send_kafka_event(producer, summary_event(gdf), broker_ok)
          IN /\ sent' = sent \o out.delivered
             /\ kafka_log' = Append(kafka_log, out.log)
             /\ IF out.raised
                THEN /\ Except("PublishError")
                     /\ UNCHANGED stages
                ELSE /\ stages' = Append(stages, "Reported")
                     /\ pc' = "Reported"
                     /\ UNCHANGED <<ui, error>>
    /\ UNCHANGED <<file, producer, gdf, futures, finished, results, duplicates, shown>>

Next ==
    \/ GetKafkaProducer
    \/ ReadFile
    \/ ReadFileError
    \/ Submit
    \/ WorkerStart
    \/ WorkerFinish
    \/ CollectResults
    \/ CollectRaises
    \/ RepairAttempt
    \/ RepairSkip
    \/ Partition
    \/ Deduplicate
    \/ MapVisualization
    \/ MapRaises
    \/ Publish

Spec == Init /\ [][Next]_vars

\* the script runs to its end and every worker of the pool finishes its call
FairSpec == Spec /\ WF_vars(Next)


(***************************************************************************)
(* Properties.                                                             *)
(***************************************************************************)
\* the stage has been entered
Entered(stage) == \E k \in 1..Len(stages) : stages[k] = stage

\* the geometry the file holds for the feature of a row
Orig(row) == file.features[row.index]

\* how often a message was shown
Count(msgs, m) == Cardinality({k \in 1..Len(msgs) : msgs[k] = m})

N == Len(file.features)

\* the verdict of a geometry, from the library predicates alone
Verdict(geom) == [valid |-> is_valid(geom),
                  issue |-> IF is_valid(geom) THEN None ELSE explain_validity(geom)]

\* C1: whatever the order in which the workers complete, the validation
\* stage returns N results, result[i] is the verdict of geometry[i], and the
\* valid and issue columns of a record are those of its own geometry.
C1_ResultsInInputOrder ==
    Entered("Validated") =>
        /\ Len(results) = N
        /\ \A i \in 1..N :
              /\ results[i].valid = Verdict(file.features[i]).valid
              /\ results[i].issue = Verdict(file.features[i]).issue
              /\ results[i].wkt = wkt(file.features[i])
        /\ \A k \in 1..Len(gdf) :
              /\ gdf[k].valid = Verdict(Orig(gdf[k])).valid
              /\ gdf[k].issue = Verdict(Orig(gdf[k])).issue

\* C1 witness: the second geometry was validated before the first, and the
\* two verdicts differ.
C1_Witness ==
    /\ Entered("Validated")
    /\ N >= 2
    /\ finished[1] = 2
    /\ results[1].valid # results[2].valid

\* some geometry of the batch is invalid
SomeInvalid == \E i \in 1..N : ~is_valid(file.features[i])

\* C2: repair is triggered by the batch: with at least one invalid record
\* the transform is applied to every record, the valid ones included, and
\* each result is validated again; with none, no record is repaired and the
\* final geometry of every record is its own.
C2_BatchLevelRepair ==
    /\ pc = "partition" =>
          /\ SomeInvalid
          /\ Len(gdf) = N
          /\ \A k \in 1..N :
                /\ gdf[k].index = k
                /\ gdf[k].geometry_fixed = buffer0(file.features[k])
                /\ gdf[k].valid_fixed = is_valid(buffer0(file.features[k]))
    /\ Entered("RepairAttempted") => SomeInvalid
    /\ Entered("RepairSkipped") =>
          /\ ~SomeInvalid
          /\ Len(gdf) = N
          /\ \A k \in 1..N :
                /\ gdf[k].geometry = file.features[k]
                /\ "geometry_fixed" \notin DOMAIN gdf[k]
    /\ pc \in {"partition", "dedupe", "map", "publish", "Reported"} =>
          (Entered("RepairAttempted") <=> ~Entered("RepairSkipped"))

\* C2 witness: repair was triggered and changed a record that was valid.
C2_Witness ==
    /\ pc = "partition"
    /\ \E k \in 1..Len(gdf) : gdf[k].valid /\ gdf[k].geometry_fixed # gdf[k].geometry

\* the repair branch has finished
Repaired == Entered("RepairAttempted") /\ pc # "partition"

\* the records of the batch whose repaired geometry is not valid, in order
Unrepairable == SelectSeq([i \in 1..N |-> i], LAMBDA i : ~is_valid(buffer0(file.features[i])))

\* the kept set after a repair attempt: the records whose repaired geometry
\* is valid, each with its repaired geometry
KeptAfterRepair ==
    /\ \A i \in 1..N :
          is_valid(buffer0(file.features[i])) <=> (\E k \in 1..Len(gdf) : gdf[k].index = i)
    /\ \A k \in 1..Len(gdf) : gdf[k].geometry = buffer0(Orig(gdf[k]))
    /\ \A k \in 1..Len(gdf) : \A j \in 1..(k - 1) : gdf[j].index < gdf[k].index

\* C3 as stated: after a repair attempt a record is kept iff its repaired
\* geometry is valid, a kept record has the repaired geometry, and every
\* record still invalid is reported with its original geometry.
C3_EveryUnrepairableReported ==
    Repaired =>
        /\ KeptAfterRepair
        /\ \A u \in 1..Len(Unrepairable) :
              \E k \in 1..Len(shown.still_invalid) :
                 /\ shown.still_invalid[k].index = Unrepairable[u]
                 /\ shown.still_invalid[k].geometry = file.features[Unrepairable[u]]

\* C3 amended: after a repair attempt a record is kept iff its repaired
\* geometry is valid, a kept record has the repaired geometry, and the first
\* ten records still invalid are reported with their original geometry.
C3_FirstTenUnrepairableReported ==
    Repaired =>
        /\ KeptAfterRepair
        /\ Len(shown.still_invalid) =
              (IF Len(Unrepairable) < HeadLimit THEN Len(Unrepairable) ELSE HeadLimit)
        /\ \A k \in 1..Len(shown.still_invalid) :
              /\ shown.still_invalid[k].index = Unrepairable[k]
              /\ shown.still_invalid[k].geometry = file.features[Unrepairable[k]]

\* C3 witness: a repair attempt kept a repaired record and excluded another.
C3_Witness ==
    /\ Repaired
    /\ shown.still_invalid # <<>>
    /\ \E k \in 1..Len(gdf) : ~gdf[k].valid /\ gdf[k].geometry # Orig(gdf[k])

\* the kept records with the same final geometry as kept record k
Group(k) == {j \in 1..Len(gdf) : gdf[j].geometry = gdf[k].geometry}

\* C4: duplicate detection over the final geometries of the kept set flags a
\* record iff its group has at least two members, the first occurrence
\* included, and flags nothing when the geometries are pairwise distinct.
C4_AllGroupMembersFlagged ==
    Entered("Deduplicated") =>
        /\ Len(duplicates) = Len(gdf)
        /\ \A k \in 1..Len(gdf) : duplicates[k] <=> Cardinality(Group(k)) >= 2
        /\ (\A k \in 1..Len(gdf) : Cardinality(Group(k)) = 1) =>
              /\ shown.duplicates = <<>>
              /\ Count(ui, "No duplicate geometries detected") = 1
        /\ \A d \in 1..Len(shown.duplicates) :
              \E k \in 1..Len(gdf) : duplicates[k] /\ gdf[k].index = shown.duplicates[d].index

\* C4 witness: the first record is flagged with a later one, and a third
\* record with a distinct geometry is not.
C4_Witness ==
    /\ Entered("Deduplicated")
    /\ Len(gdf) >= 3
    /\ duplicates[1]
    /\ \E k \in 1..Len(gdf) : ~duplicates[k]

\* C5 as stated: a kept record that the initial validation found valid has
\* its original geometry as final geometry, repair attempted or not.
C5_ValidRecordKeepsGeometry ==
    pc \in {"dedupe", "map", "publish", "Reported"} =>
        \A k \in 1..Len(gdf) : gdf[k].valid => gdf[k].geometry = Orig(gdf[k])

\* the batch holds a geometry whose validation raises
HasNull == file.readable /\ \E i \in 1..N : file.features[i] = NullGeom

\* C6: when validating one geometry raises, the batch aborts: no record gets
\* a validation result, no later stage runs, and one error message is shown.
C6_ValidationErrorAborts ==
    (HasNull /\ pc \notin {"producer", "read", "submit", "pool"}) =>
        /\ pc = "Aborted"
        /\ error = "GeometryProcessingError"
        /\ results = <<>>
        /\ \A k \in 1..Len(gdf) : DOMAIN gdf[k] = {"index", "geometry"}
        /\ stages = <<"Ingested">>
        /\ duplicates = <<>>
        /\ shown = NoShown
        /\ event = NoEvent
        /\ sent = <<>>
        /\ ui = <<"Data Preview", "Error processing GeoJSON file">>

\* C6 witness: the batch aborted on a null geometry while a valid geometry of
\* the same batch had been validated.
C6_Witness ==
    /\ pc = "Aborted"
    /\ error = "GeometryProcessingError"
    /\ \E i \in 1..Len(futures) :
          /\ futures[i].state = "FINISHED"
          /\ ~futures[i].result.raised

\* s is a prefix of t
IsPrefix(s, t) == Len(s) <= Len(t) /\ SubSeq(t, 1, Len(s)) = s

StageOrders ==
    {<<"Ingested", "Validated", "RepairAttempted", "Deduplicated", "Reported">>,
     <<"Ingested", "Validated", "RepairSkipped", "Deduplicated", "Reported">>}

StagesInOrder ==
    /\ \E o \in StageOrders : IsPrefix(stages, o)
    /\ pc = "Reported" => stages \in StageOrders
    /\ Entered("Deduplicated") => pc \notin {"repair", "partition"}
    /\ Len(kafka_log) = (IF pc = "producer" THEN 0 ELSE IF pc = "Reported" THEN 2 ELSE 1)
    /\ Len(sent) <= 1
    /\ (event # NoEvent \/ sent # <<>>) => (Entered("Deduplicated") /\ pc = "Reported")

\* C7: a run without a processing error goes through Ingested, Validated,
\* one of RepairAttempted and RepairSkipped, Deduplicated, Reported, in this
\* order and each once, and ends in Reported; duplicate detection does not
\* run before the repair decision, and the summary event is published once,
\* after duplicate detection.
C7_StageOrder ==
    /\ []StagesInOrder
    /\ <>(pc = "Reported"
          \/ error \in {"IngestionError", "GeometryProcessingError", "MapError"})

\* C7 witness: a run that attempted repair ended in Reported.
C7_Witness ==
    /\ pc = "Reported"
    /\ Entered("RepairAttempted")
    /\ error = None

\* C8: publishing never aborts the pipeline and never changes the kept
\* records: without a producer nothing is sent and the call is logged, and
\* when sending raises the error is logged and the run still ends in Reported.
C8_PublishNeverAborts ==
    [][pc = "publish" =>
          /\ pc' = "Reported"
          /\ error' = None
          /\ gdf' = gdf
          /\ shown' = shown
          /\ ui' = ui
          /\ (producer = None =>
                 /\ sent' = sent
                 /\ kafka_log' = Append(kafka_log, "Kafka producer is not initialized."))
          /\ sent' # sent => kafka_log' = Append(kafka_log, "Kafka event sent")]_vars

\* C8 witness: sending raised, the error was logged, and the run ended in
\* Reported with its kept records.
C8_Witness ==
    /\ pc = "Reported"
    /\ kafka_log[Len(kafka_log)] = "Error sending Kafka event"
    /\ sent = <<>>
    /\ gdf # <<>>

\* C9 as stated: total_features of the summary event of a completed run is
\* the number of features of the input.
C9_TotalIsInputCount ==
    pc = "Reported" => event.total_features = N

EmptyBatch == file.readable /\ file.features = <<>>

EmptyBatchAndMap ==
    /\ EmptyBatch =>
          /\ pc # "Aborted"
          /\ error = None
          /\ gdf = <<>>
          /\ shown = NoShown
          /\ ~Entered("RepairAttempted")
          /\ Count(ui, "Detected invalid geometries") = 0
          /\ Count(ui, "Detected duplicate geometries") = 0
          /\ pc = "Reported" => /\ Entered("RepairSkipped")
                                /\ event.total_features = 0
    /\ pc \in {"publish", "Reported"} =>
          /\ Count(ui, "Geometries visualized successfully") = (IF gdf # <<>> THEN 1 ELSE 0)
          /\ Count(ui, "No valid geometries to visualize") = (IF gdf = <<>> THEN 1 ELSE 0)
          /\ shown.map = [k \in 1..Len(gdf) |-> gdf[k].geometry]

====
